---- MODULE Spec2Model ----
(***************************************************************************)
(* Inbox allocation service: the conversation lifecycle                    *)
(* (QUEUED / ALLOCATED / RESOLVED), the priority scorer, claim / allocate  *)
(* / resolve / deallocate / reassign / move, and the grace-period ledger   *)
(* with its expiry sweeper.                                                *)
(*                                                                         *)
(* Spec      : every handler runs as one atomic step (serial requests).    *)
(* SpecRace  : two request handlers run concurrently; a handler is split   *)
(*             at the points where it reads the store without holding the  *)
(*             write lock (SQLite through pysqlite takes the write lock at  *)
(*             the first UPDATE/INSERT/DELETE of a session, i.e. at the     *)
(*             session's first flush, and keeps it until commit).          *)
(* SpecList  : SpecRace with listQueued as a third kind of request.        *)
(* SpecOffline : SpecRace with operatorGoesOffline requests in between.    *)
(* SpecLive  : the serial service with the scheduler's fairness.           *)
(* SpecManage : the manager operations from every stored conversation.     *)
(* SpecSweep : two overlapping sweeper ticks with claims in between.       *)
(* SpecScore : the scorer, listQueued and allocateNext over every start    *)
(*             queue of bounded size.                                      *)
(* SpecWindow : SpecScore with the candidate window scaled down.           *)
(* SpecGrace : the serial service started from the states in which        *)
(*             operators hold conversations and some of them are away.     *)
(*                                                                         *)
(* Abstractions: timestamps are whole minutes of one clock `now`; float    *)
(* scores are exact rationals <<num, den>>; updated_at / created_at are    *)
(* write-only stamps no handler reads and are left out.                    *)
(***************************************************************************)
EXTENDS Integers, Sequences, FiniteSets, TLC

\* ------------------------------------------------------------------ bounds
MaxConvs == 2      \* conversation rows ever created
MaxTime  == 2      \* the clock runs 1..MaxTime
MaxWrites == 4     \* committed changes of the store in one behaviour
MaxCount == 2      \* message counts in the start queues of SpecScore
WindowSize == 1    \* the LIMIT of the candidate query in SpecWindow

\* ------------------------------------------------------- program constants
DEFAULT_ALPHA   == 1
DEFAULT_BETA    == 1
CandidateLimit  == 100
GraceMinutes    == 1

\* ------------------------------------------------------------ static data
NULL    == "NULL"          \* SQL NULL / Python None in an operator column
NoTime  == 0               \* NULL timestamp
WS      == " "             \* a whitespace character of a raw identifier

Tenants == {"t1", "t2"}

\* operators table (rows are created outside the engine; role and tenant
\* never change)
Operators == {"o1", "m1", "a2", "n1"}

OperatorTenant(o) == IF o = "a2" THEN "t2" ELSE "t1"

OperatorRole(o) ==
    CASE o = "m1" -> "MANAGER"
      [] o = "a2" -> "ADMIN"
      [] OTHER    -> "OPERATOR"

\* operators that own an operator_status row ("n1" has none)
HasStatusRow(o) == o # "n1"

UnknownOperator == "zz"

\* the operators whose availability changes (the manager "m1" stays OFFLINE
\* in Spec), with one that has no status row and one that does not exist
StatusCallers == {"o1", "a2", "n1", UnknownOperator}

\* inboxes table
Inboxes == {"i1", "i2", "i3"}

InboxTenant(i) == IF i = "i3" THEN "t2" ELSE "t1"

UnknownInbox == "iz"

ExtIds == {"x1"}

ConvIds == 1..MaxConvs

UnknownConv == MaxConvs + 1

Times == 1..MaxTime

\* ------------------------------------------------------------------ state
VARIABLES
    now,      \* the clock (datetime.utcnow(), in minutes)
    convs,    \* conversation_refs: id -> row (NoConv when not yet created)
    status,   \* operator_status: operator -> AVAILABLE | OFFLINE | NULL(no row)
    subs,     \* operator_inbox_subscriptions: set of <<operator, inbox>>
    grace,    \* grace_period_assignments: bag of rows, as row -> copies
    policy,   \* tenants: tenant id -> its rows, {} or {[alpha, beta]}
    last,     \* the most recent call: which handler, and what it returned
    writes,   \* number of calls so far that changed the store
    live,     \* the most recent call changed the store
    req       \* SpecRace: the in-flight request of each handler

vars == <<now, convs, status, subs, grace, policy, last, writes, live, req>>

store == <<convs, status, subs, grace, policy>>

NoConv == [tenant |-> NULL, inbox |-> NULL, ext |-> NULL, state |-> "ABSENT",
           assigned |-> NULL, resolved_at |-> NoTime, last_message_at |-> NoTime,
           message_count |-> 0, priority_score |-> <<0, 1>>]

Exists(cs, c) == c \in ConvIds /\ cs[c].state # "ABSENT"

\* ------------------------------------------------------- identifier input
\* the identifiers requests carry: a whitespace-only one, "o1" / conversation 1
\* / "i1" padded with whitespace, the other names bare, and an unknown one
RawOperatorIds ==
    {<<WS>>, <<WS, "o1", WS>>, <<UnknownOperator>>} \cup {<<o>> : o \in Operators \ {"o1"}}

RawConvIds ==
    {<<WS>>, <<WS, ToString(1)>>} \cup {<<ToString(c)>> : c \in 2..(MaxConvs + 1)}

\* callers of the manager operations, the targets and the inboxes they name
RawManagerIds == {<<WS>>, <<WS, "o1", WS>>, <<"m1">>, <<"a2">>}

RawTargetIds == {<<WS>>, <<WS, "o1", WS>>, <<"a2">>, <<UnknownOperator>>}

RawInboxIds ==
    {<<WS>>, <<"i1", WS>>, <<UnknownInbox>>} \cup {<<i>> : i \in Inboxes \ {"i1"}}

\* the calls of a manager operation: every combination of non-blank ids, and
\* each id left blank in an otherwise valid call by the manager "m1"
ManagerCalls(Seconds, valid) ==
    LET NonBlank(S) == S \ {<<WS>>} IN
    (NonBlank(RawConvIds) \X NonBlank(Seconds) \X NonBlank(RawManagerIds))
    \cup {<< <<WS>>, valid, <<"m1">> >>,
          << <<WS, ToString(1)>>, <<WS>>, <<"m1">> >>,
          << <<WS, ToString(1)>>, valid, <<WS>> >>}

ReassignCalls == ManagerCalls(RawTargetIds, <<WS, "o1", WS>>)

MoveCalls == ManagerCalls(RawInboxIds, <<"i2">>)

\* x.strip() if x else None : drop leading and trailing whitespace
\* A raw identifier is a sequence of tokens: whitespace characters and at
\* most one name. Conversation ids are written as decimal strings.
RECURSIVE StripLeft(_)
StripLeft(s) ==
    IF s # <<>> /\ Head(s) = WS THEN StripLeft(Tail(s)) ELSE s

RECURSIVE StripRight(_)
StripRight(s) ==
    IF s # <<>> /\ s[Len(s)] = WS THEN StripRight(SubSeq(s, 1, Len(s) - 1)) ELSE s

Strip(s) == StripRight(StripLeft(s))

\* the stripped form of every identifier a request can carry, computed once
RawIds == RawOperatorIds \cup RawConvIds \cup RawManagerIds \cup RawTargetIds \cup RawInboxIds

Stripped == [s \in RawIds |-> Strip(s)]

\* `if not operator_id` after the strip: the empty string is a missing id
Missing(s) == Stripped[s] = <<>>

\* the operator / inbox name a non-missing raw input denotes
Ident(s) == Stripped[s][1]

\* the conversation row id a decimal string denotes
ConvNumber == [d \in {ToString(c) : c \in 1..(MaxConvs + 1)} |->
                 CHOOSE c \in 1..(MaxConvs + 1) : ToString(c) = d]

\* the conversation row id a non-missing raw input denotes
ConvIdent(s) == ConvNumber[Stripped[s][1]]

\* inboxes that receive customer messages
MessageInboxes == {"i1", "i2"}

\* ------------------------------------------------------------- rationals
RECURSIVE GCD(_, _)
GCD(a, b) == IF b = 0 THEN a ELSE GCD(b, a % b)

Abs(x) == IF x < 0 THEN -x ELSE x

Rat(n, d) ==
    LET g == GCD(Abs(n), d) IN IF n = 0 THEN <<0, 1>> ELSE <<n \div g, d \div g>>

RatLess(p, q) == p[1] * q[2] < q[1] * p[2]

SetMin(S) == CHOOSE x \in S : \A y \in S : x <= y
SetMax(S) == CHOOSE x \in S : \A y \in S : x >= y

\* ---------------------------------------------------------- priority engine
\* the weights without the tenant lookup
GetTenantConfig_DefaultsOnly(t) == <<DEFAULT_ALPHA, DEFAULT_BETA>>

GetTenantConfig(t) ==
    IF policy[t] = {} THEN <<DEFAULT_ALPHA, DEFAULT_BETA>>
    ELSE LET tenant == CHOOSE r \in policy[t] : TRUE IN <<tenant.alpha, tenant.beta>>

\* normalize_value dividing the value itself by the range
NormalizeValue_NoShift(value, min_val, max_val) ==
    IF max_val = min_val THEN <<0, 1>> ELSE <<value, max_val - min_val>>

\* normalize_value as the fraction <<value - min, max - min>>, <<0, 1>> if max = min
NormalizeValue(value, min_val, max_val) ==
    IF max_val = min_val THEN <<0, 1>> ELSE <<value - min_val, max_val - min_val>>

DelayMinutes(cs, c, t) == t - cs[c].last_message_at

\* the scorer with the two weights exchanged
CalculatePriority_WeightsSwapped(cs, c, W, tenant, t) ==
    IF W = {} THEN <<0, 1>>
    ELSE LET ab == GetTenantConfig(tenant) IN
         IF Cardinality(W) = 1 THEN Rat(ab[1] + ab[2], 1)
         ELSE LET delays == {DelayMinutes(cs, x, t) : x \in W}
                  counts == {cs[x].message_count : x \in W}
                  nd == NormalizeValue(DelayMinutes(cs, c, t), SetMin(delays), SetMax(delays))
                  nc == NormalizeValue(cs[c].message_count, SetMin(counts), SetMax(counts))
              IN  Rat(ab[2] * nc[1] * nd[2] + ab[1] * nd[1] * nc[2], nc[2] * nd[2])

CalculatePriority(cs, c, W, tenant, t) ==
    IF W = {} THEN <<0, 1>>
    ELSE LET ab == GetTenantConfig(tenant) IN
         IF Cardinality(W) = 1 THEN Rat(ab[1] + ab[2], 1)
         ELSE LET delays == {DelayMinutes(cs, x, t) : x \in W}
                  counts == {cs[x].message_count : x \in W}
                  nd == NormalizeValue(DelayMinutes(cs, c, t), SetMin(delays), SetMax(delays))
                  nc == NormalizeValue(cs[c].message_count, SetMin(counts), SetMax(counts))
              IN  Rat(ab[1] * nc[1] * nd[2] + ab[2] * nd[1] * nc[2], nc[2] * nd[2])

\* the query without its tenant_id condition
Queued_AnyTenant(cs, tenant) ==
    {c \in ConvIds : cs[c].state = "QUEUED"}

\* QUEUED rows of a tenant
Queued(cs, tenant) ==
    {c \in ConvIds : cs[c].state = "QUEUED" /\ cs[c].tenant = tenant}

\* the query without its LIMIT
Window_NoLimit(cs, tenant, limit) == {Queued(cs, tenant)}

\* ORDER BY last_message_at DESC LIMIT limit: every window the query can
\* return
Window(cs, tenant, limit) ==
    LET Q == Queued(cs, tenant)
        k == IF Cardinality(Q) <= limit THEN Cardinality(Q) ELSE limit
    IN  {W \in SUBSET Q :
            /\ Cardinality(W) = k
            /\ \A a \in W, b \in Q \ W : cs[a].last_message_at >= cs[b].last_message_at}

\* ... LIMIT 100
CandidateSets(cs, tenant) == Window(cs, tenant, CandidateLimit)

\* scores of a window: candidate -> fresh score
Scores(cs, W, tenant, t) == [c \in W |-> CalculatePriority(cs, c, W, tenant, t)]

\* the sort with its second key reversed: newest last activity first
Before_NewestFirst(cs, sc, x, y) ==
    \/ RatLess(sc[y], sc[x])
    \/ sc[x] = sc[y] /\ cs[x].last_message_at > cs[y].last_message_at

\* sorted(key = (-priority_score, last_message_at)): x is ranked before y
Before(cs, sc, x, y) ==
    \/ RatLess(sc[y], sc[x])
    \/ sc[x] = sc[y] /\ cs[x].last_message_at < cs[y].last_message_at

\* every arrangement of the conversations W in a list
RECURSIVE Arrangements(_)
Arrangements(W) ==
    IF W = {} THEN {<<>>}
    ELSE UNION {{<<x>> \o s : s \in Arrangements(W \ {x})} : x \in W}

\* the lists sorted() can produce: no element is ranked before an earlier one
\* (candidates with equal keys come in the order the query returned them)
SortedLists(cs, sc, W) ==
    {s \in Arrangements(W) :
        \A i, j \in 1..Len(s) : i < j => ~Before(cs, sc, s[j], s[i])}

\* the candidates that can come first in candidates_sorted
TopCandidates(cs, sc, W) == {c \in W : \A y \in W : ~Before(cs, sc, y, c)}

\* ------------------------------------------------------------------ ledger
\* a ledger row; the bag maps a row to its number of copies
GraceRow(c, o, exp) == [conv |-> c, op |-> o, exp |-> exp]

GraceCount(g, r) == IF r \in DOMAIN g THEN g[r] ELSE 0

\* db.add of the rows R (one copy each)
GraceAdd(g, R) ==
    [r \in DOMAIN g \cup R |-> GraceCount(g, r) + (IF r \in R THEN 1 ELSE 0)]

\* db.delete of every copy of the rows R
GraceDelete(g, R) == [r \in DOMAIN g \ R |-> g[r]]

\* ------------------------------------------------------------ permissions
\* get_operator_role: None for an unknown operator
IsManagerOrAdmin(o) ==
    o \in Operators /\ OperatorRole(o) \in {"MANAGER", "ADMIN"}

\* what a call returned: a record ("ok"), None / [] ("none"), PermissionError
\* ("denied"), ValueError or another exception ("error")
Call(op, res) == [op |-> op, res |-> res, rows |-> <<>>, avail |-> NULL]

\* a call that returned conversation records: their ids, in returned order
Returned(op, rows) == [op |-> op, res |-> "ok", rows |-> rows, avail |-> NULL]

ConvArg(rc) == IF Missing(rc) THEN 0 ELSE ConvIdent(rc)
OpArg(ro)   == IF Missing(ro) THEN NULL ELSE Ident(ro)

\* ------------------------------------------------------------- onMessage
\* rows matching the (tenant, inbox, external id) lookup
Matching(cs, tenant, inbox, ext) ==
    {c \in ConvIds : cs[c].tenant = tenant /\ cs[c].inbox = inbox /\ cs[c].ext = ext}

FreeIds(cs) == {c \in ConvIds : cs[c].state = "ABSENT"}

NewConv(tenant, inbox, ext, t) ==
    [tenant |-> tenant, inbox |-> inbox, ext |-> ext, state |-> "QUEUED",
     assigned |-> NULL, resolved_at |-> NoTime, last_message_at |-> t,
     message_count |-> 1, priority_score |-> <<0, 1>>]

\* the update without the refresh of last_message_at
TouchConv_CountOnly(row, t) ==
    [row EXCEPT !.message_count = @ + 1]

\* the update that also puts the conversation back in the queue
TouchConv_Reopen(row, t) ==
    [row EXCEPT !.message_count = @ + 1, !.last_message_at = t,
                !.state = "QUEUED", !.assigned = NULL]

TouchConv(row, t) ==
    [row EXCEPT !.message_count = @ + 1, !.last_message_at = t]

CreateOrUpdateConversation(inbox, ext) ==
    LET tenant == InboxTenant(inbox)
        M == Matching(convs, tenant, inbox, ext)
    IN  /\ \/ /\ M = {}
              /\ FreeIds(convs) # {}
              /\ LET c == SetMin(FreeIds(convs)) IN
                   /\ convs' = [convs EXCEPT ![c] = NewConv(tenant, inbox, ext, now)]
                   /\ last' = Call("onMessage", "ok")
           \/ /\ Cardinality(M) = 1
              /\ LET c == CHOOSE x \in M : TRUE IN
                   /\ convs' = [convs EXCEPT ![c] = TouchConv(@, now)]
                   /\ last' = Call("onMessage", "ok")
           \/ /\ Cardinality(M) > 1          \* one_or_none(): MultipleResultsFound
              /\ convs' = convs
              /\ last' = Call("onMessage", "error")
        /\ UNCHANGED <<now, status, subs, grace, policy, req>>

\* ----------------------------------------------------------------- claim
\* the checks without the comparison of tenants
ClaimConvOk_AnyTenant(cs, c, o) ==
    /\ o \in Operators
    /\ Exists(cs, c)
    /\ cs[c].state = "QUEUED"

\* the checks made on the operator row and the conversation row
ClaimConvOk(cs, c, o) ==
    /\ o \in Operators
    /\ Exists(cs, c)
    /\ cs[c].state = "QUEUED"
    /\ OperatorTenant(o) = cs[c].tenant

\* a claim that accepts any status row (a variant of AvailableOk, used to
\* show that C10_ClaimRefusals depends on the AVAILABLE check)
AvailableOk_AnyStatus(st, o) == st[o] # NULL

\* the checks made on the operator_status row
AvailableOk(st, o) == st[o] # NULL /\ st[o] = "AVAILABLE"

\* conv.state = ALLOCATED; conv.assigned_operator_id = operator_id
AllocateRow(row, o) == [row EXCEPT !.state = "ALLOCATED", !.assigned = o]

\* the allocation without the auto-subscription
Subscribe_Skip(sb, o, inbox) == sb

\* auto-subscribe when no subscription row exists
Subscribe(sb, o, inbox) == sb \cup {<<o, inbox>>}

ClaimConversation(rc, ro) ==
    LET c == ConvArg(rc)
        o == OpArg(ro)
    IN  /\ IF /\ ~Missing(rc) /\ ~Missing(ro)
              /\ ClaimConvOk(convs, c, o)
              /\ AvailableOk(status, o)
           THEN /\ convs' = [convs EXCEPT ![c] = AllocateRow(@, o)]
                /\ subs' = Subscribe(subs, o, convs[c].inbox)
                /\ last' = Call("claim", "ok")
           ELSE /\ UNCHANGED <<convs, subs>>
                /\ last' = Call("claim", "none")
        /\ UNCHANGED <<now, status, grace, policy, req>>

\* --------------------------------------------------------------- resolve
IsOwner(row, o) == row.assigned = o

\* a role check that ignores the tenant (a variant of
\* IsManagerOrAdminSameTenant, used to show that C7_ResolveDeniedUnlessResolved
\* depends on the tenant comparison)
IsManagerOrAdminAnyTenant(row, o) == OperatorRole(o) \in {"MANAGER", "ADMIN"}

IsManagerOrAdminSameTenant(row, o) ==
    OperatorTenant(o) = row.tenant /\ OperatorRole(o) \in {"MANAGER", "ADMIN"}

ResolveRow(row, t) == [row EXCEPT !.state = "RESOLVED", !.resolved_at = t]

\* resolve without the early return for RESOLVED rows (a variant of
\* ResolveOutcome, used to show that C6_ResolveIdempotentForKnownCaller
\* depends on it)
ResolveOutcome_NoEarlyReturn(cs, c, o, missing) ==
    IF missing \/ o \notin Operators \/ ~Exists(cs, c) THEN "none"
    ELSE IF ~IsOwner(cs[c], o) /\ ~IsManagerOrAdminSameTenant(cs[c], o) THEN "denied"
    ELSE "write"

\* the outcome of resolve_conversation on the rows it reads
ResolveOutcome(cs, c, o, missing) ==
    IF missing \/ o \notin Operators \/ ~Exists(cs, c) THEN "none"
    ELSE IF cs[c].state = "RESOLVED" THEN "same"
    ELSE IF ~IsOwner(cs[c], o) /\ ~IsManagerOrAdminSameTenant(cs[c], o) THEN "denied"
    ELSE "write"

ResolveConversation(rc, ro) ==
    LET c == ConvArg(rc)
        o == OpArg(ro)
        out == ResolveOutcome(convs, c, o, Missing(rc) \/ Missing(ro))
    IN  /\ convs' = IF out = "write" THEN [convs EXCEPT ![c] = ResolveRow(@, now)]
                    ELSE convs
        /\ last' = Call("resolve", IF out \in {"same", "write"} THEN "ok" ELSE out)
        /\ UNCHANGED <<now, status, subs, grace, policy, req>>

\* ------------------------------------------------------------ deallocate
\* the update without the clearing of assigned_operator_id
DeallocateRow_KeepAssignee(row) == [row EXCEPT !.state = "QUEUED"]

DeallocateRow(row) == [row EXCEPT !.state = "QUEUED", !.assigned = NULL]

DeallocateConversation(rc) ==
    LET c == ConvArg(rc) IN
    /\ IF ~Missing(rc) /\ Exists(convs, c) /\ convs[c].state = "ALLOCATED"
       THEN /\ convs' = [convs EXCEPT ![c] = DeallocateRow(@)]
            /\ last' = Call("deallocate", "ok")
       ELSE /\ convs' = convs
            /\ last' = Call("deallocate", "none")
    /\ UNCHANGED <<now, status, subs, grace, policy, req>>

\* -------------------------------------------------------------- reassign
ReassignRow(row, target) == [row EXCEPT !.assigned = target, !.state = "ALLOCATED"]

\* reassign that accepts an ALLOCATED conversation (a variant of
\* ReassignOutcome, used to show that C9_ReassignByState depends on the
\* rejection)
ReassignOutcome_AcceptAllocated(cs, c, target, o, missing) ==
    IF missing THEN "none"
    ELSE IF ~IsManagerOrAdmin(o) THEN "denied"
    ELSE IF ~Exists(cs, c) THEN "none"
    ELSE IF target \notin Operators THEN "none"
    ELSE IF OperatorTenant(target) # cs[c].tenant THEN "none"
    ELSE "write"

\* the checks without the comparison of tenants
ReassignOutcome_AnyTenant(cs, c, target, o, missing) ==
    IF missing THEN "none"
    ELSE IF ~IsManagerOrAdmin(o) THEN "denied"
    ELSE IF ~Exists(cs, c) THEN "none"
    ELSE IF cs[c].state = "ALLOCATED" THEN "none"
    ELSE IF cs[c].state \notin {"RESOLVED", "QUEUED"} THEN "none"
    ELSE IF target \notin Operators THEN "none"
    ELSE "write"

ReassignOutcome(cs, c, target, o, missing) ==
    IF missing THEN "none"
    ELSE IF ~IsManagerOrAdmin(o) THEN "denied"
    ELSE IF ~Exists(cs, c) THEN "none"
    ELSE IF cs[c].state = "ALLOCATED" THEN "none"
    ELSE IF cs[c].state \notin {"RESOLVED", "QUEUED"} THEN "none"
    ELSE IF target \notin Operators THEN "none"
    ELSE IF OperatorTenant(target) # cs[c].tenant THEN "none"
    ELSE "write"

ReassignConversation(rc, rtarget, ro) ==
    LET c == ConvArg(rc)
        o == OpArg(ro)
        target == OpArg(rtarget)
        out == ReassignOutcome(convs, c, target, o,
                               Missing(rc) \/ Missing(rtarget) \/ Missing(ro))
    IN  /\ convs' = IF out = "write" THEN [convs EXCEPT ![c] = ReassignRow(@, target)]
                    ELSE convs
        /\ last' = Call("reassign", IF out = "write" THEN "ok" ELSE out)
        /\ UNCHANGED <<now, status, subs, grace, policy, req>>

\* ------------------------------------------------------------ move inbox
\* the checks without the comparison of tenants
MoveOutcome_AnyTenant(cs, c, inbox, o, missing) ==
    IF missing THEN "none"
    ELSE IF ~IsManagerOrAdmin(o) THEN "denied"
    ELSE IF ~Exists(cs, c) THEN "none"
    ELSE IF inbox \notin Inboxes THEN "error"
    ELSE "write"

MoveOutcome(cs, c, inbox, o, missing) ==
    IF missing THEN "none"
    ELSE IF ~IsManagerOrAdmin(o) THEN "denied"
    ELSE IF ~Exists(cs, c) THEN "none"
    ELSE IF inbox \notin Inboxes THEN "error"
    ELSE IF InboxTenant(inbox) # cs[c].tenant THEN "error"
    ELSE "write"

MoveConversationInbox(rc, rinbox, ro) ==
    LET c == ConvArg(rc)
        o == OpArg(ro)
        inbox == OpArg(rinbox)
        out == MoveOutcome(convs, c, inbox, o,
                           Missing(rc) \/ Missing(rinbox) \/ Missing(ro))
    IN  /\ convs' = IF out = "write" THEN [convs EXCEPT ![c].inbox = inbox] ELSE convs
        /\ last' = Call("move", IF out = "write" THEN "ok" ELSE out)
        /\ UNCHANGED <<now, status, subs, grace, policy, req>>

\* ---------------------------------------------------------- allocateNext
\* the priority scores written back for the window W (the session's dirty
\* candidates), and the top candidate allocated to o
ScoreRows(cs, sc, W) ==
    [c \in ConvIds |-> IF c \in W THEN [cs[c] EXCEPT !.priority_score = sc[c]] ELSE cs[c]]

\* the handler with the LIMIT of its candidate query as a parameter
AllocateNextWithin(ro, limit) ==
    LET o == OpArg(ro) IN
    /\ IF ~Missing(ro) /\ o \in Operators /\ AvailableOk(status, o)
          /\ Queued(convs, OperatorTenant(o)) # {}
       THEN \E W \in Window(convs, OperatorTenant(o), limit) :
              LET sc == Scores(convs, W, OperatorTenant(o), now) IN
              \E top \in TopCandidates(convs, sc, W) :
                 /\ convs' = [ScoreRows(convs, sc, W) EXCEPT ![top] = AllocateRow(@, o)]
                 /\ subs' = Subscribe(subs, o, convs[top].inbox)
                 /\ last' = Returned("allocate", <<top>>)
       ELSE /\ UNCHANGED <<convs, subs>>
            /\ last' = Call("allocate", "none")
    /\ UNCHANGED <<now, status, grace, policy, req>>

AllocateNextConversation(ro) == AllocateNextWithin(ro, CandidateLimit)

\* ------------------------------------------------------------ listQueued
\* operator_status of the response: status.status.value, "UNKNOWN" without a
\* status row
OperatorStatusOf(st, o) == IF st[o] = NULL THEN "UNKNOWN" ELSE st[o]

\* the handler with the LIMIT of its candidate query as a parameter
ListQueuedWithin(ro, limit) ==
    LET o == OpArg(ro) IN
    /\ IF ~Missing(ro) /\ o \in Operators /\ Queued(convs, OperatorTenant(o)) # {}
       THEN \E W \in Window(convs, OperatorTenant(o), limit) :
              LET sc == Scores(convs, W, OperatorTenant(o), now) IN
              \E sorted \in SortedLists(convs, sc, W) :
                 /\ convs' = ScoreRows(convs, sc, W)
                 /\ last' = [Returned("list", sorted) EXCEPT
                                !.avail = OperatorStatusOf(status, o)]
       ELSE /\ convs' = convs          \* "return []": a bare list, no status
            /\ last' = Call("list", "none")
    /\ UNCHANGED <<now, status, subs, grace, policy, req>>

ListQueuedConversations(ro) == ListQueuedWithin(ro, CandidateLimit)

\* ------------------------------------------------------- offline / online
\* UPDATE operator_status ... WHERE operator_id = o (no row: nothing changes)
SetStatus(st, o, v) ==
    IF o \in Operators /\ st[o] # NULL THEN [st EXCEPT ![o] = v] ELSE st

\* the query without its state condition
HeldBy_AnyState(cs, o) == {c \in ConvIds : cs[c].assigned = o}

HeldBy(cs, o) == {c \in ConvIds : cs[c].assigned = o /\ cs[c].state = "ALLOCATED"}

OperatorGoesOffline(o) ==
    LET R == {GraceRow(c, o, now + GraceMinutes) : c \in HeldBy(convs, o)} IN
    /\ status' = SetStatus(status, o, "OFFLINE")
    /\ grace' = GraceAdd(grace, R)
    /\ last' = Call("offline", "ok")
    /\ UNCHANGED <<now, convs, subs, policy, req>>

\* the query restricted to the entries that have lapsed
GraceOf_Lapsed(g, o) == {r \in DOMAIN g : r.op = o /\ r.exp <= now}

\* the grace entries of an operator
GraceOf(g, o) == {r \in DOMAIN g : r.op = o}

OperatorGoesOnline(o) ==
    /\ status' = SetStatus(status, o, "AVAILABLE")
    /\ grace' = GraceDelete(grace, GraceOf(grace, o))
    /\ last' = Call("online", "ok")
    /\ UNCHANGED <<now, convs, subs, policy, req>>

\* --------------------------------------------------------------- sweeper
\* the query without its condition on expires_at
Expired_All(g, t) == DOMAIN g

\* the query with a strict comparison
Expired_Strict(g, t) == {r \in DOMAIN g : r.exp < t}

Expired(g, t) == {r \in DOMAIN g : r.exp <= t}

\* the state test against the wrong state
Reverted_QueuedOnly(cs, g, t) ==
    {c \in ConvIds : cs[c].state = "QUEUED" /\ \E r \in Expired(g, t) : r.conv = c}

\* the conversations a tick reverts: still ALLOCATED, named by a lapsed row
Reverted(cs, g, t) ==
    {c \in ConvIds : cs[c].state = "ALLOCATED" /\ \E r \in Expired(g, t) : r.conv = c}

ProcessGraceExpiry ==
    /\ convs' = [c \in ConvIds |->
                    IF c \in Reverted(convs, grace, now) THEN DeallocateRow(convs[c])
                    ELSE convs[c]]
    /\ grace' = GraceDelete(grace, Expired(grace, now))
    /\ last' = Call("sweep", "ok")
    /\ UNCHANGED <<now, status, subs, policy, req>>

\* A tick in which processing a lapsed entry raises: the loop runs inside one
\* "with SessionLocal.begin()" block and has no handler of its own, so the
\* exception leaves the block, the transaction is rolled back and
\* run_grace_expiry_job logs the error.
ProcessGraceExpiryFails ==
    /\ Expired(grace, now) # {}
    /\ last' = Call("sweep", "error")
    /\ UNCHANGED <<now, convs, status, subs, grace, policy, req>>

\* ----------------------------------------------------------------- clock
Tick ==
    /\ now < MaxTime
    /\ now' = now + 1
    /\ UNCHANGED <<convs, status, subs, grace, policy, last, writes, live, req>>

\* The bound on a behaviour's committed changes. A call that changed nothing
\* is explored as the last call of a behaviour: the store after it is the
\* store before it, so every continuation is explored from the state before.
Account ==
    /\ live' = (store' # store)
    /\ writes' = IF live' THEN writes + 1 ELSE writes
    /\ writes' <= MaxWrites

\* ------------------------------------------------------------------ Spec
Procs == {1, 2}

\* a request handler's session: where it is, its arguments, the attributes
\* it has loaded (the conversation's inbox, the scores it computed), and
\* what it returned
Idle == [pc |-> "idle", op |-> "none", conv |-> 0, who |-> NULL, inbox |-> NULL,
         scores |-> << >>, res |-> "none", seen |-> << >>, revert |-> {}]

Init ==
    /\ now = 1
    /\ convs = [c \in ConvIds |-> NoConv]
    /\ status = [o \in Operators |-> IF HasStatusRow(o) THEN "OFFLINE" ELSE NULL]
    /\ subs = {}
    /\ grace = << >>
    /\ policy = [t \in Tenants |-> {}]
    /\ last = Call("init", "ok")
    /\ writes = 0
    /\ live = TRUE
    /\ req = [p \in Procs |-> Idle]

Next ==
    \/ live /\ \E i \in MessageInboxes, x \in ExtIds :
                  CreateOrUpdateConversation(i, x) /\ Account
    \/ live /\ \E rc \in RawConvIds, ro \in RawOperatorIds :
                  ClaimConversation(rc, ro) /\ Account
    \/ live /\ \E ro \in RawOperatorIds : AllocateNextConversation(ro) /\ Account
    \/ live /\ \E ro \in RawOperatorIds : ListQueuedConversations(ro) /\ Account
    \/ live /\ \E rc \in RawConvIds, ro \in RawOperatorIds :
                  ResolveConversation(rc, ro) /\ Account
    \/ live /\ \E rc \in RawConvIds : DeallocateConversation(rc) /\ Account
    \/ live /\ \E call \in ReassignCalls :
                  ReassignConversation(call[1], call[2], call[3]) /\ Account
    \/ live /\ \E call \in MoveCalls :
                  MoveConversationInbox(call[1], call[2], call[3]) /\ Account
    \/ live /\ \E o \in StatusCallers : OperatorGoesOffline(o) /\ Account
    \/ live /\ \E o \in StatusCallers : OperatorGoesOnline(o) /\ Account
    \/ live /\ ProcessGraceExpiry /\ Account
    \/ live /\ ProcessGraceExpiryFails /\ Account
    \/ live /\ Tick

Spec == Init /\ [][Next]_vars

\* ============================================================== SpecRace
\* Two handlers, each serving one claim or allocateNext request. A SELECT
\* outside a write transaction sees the committed store at that moment; the
\* session's first flush takes the store's write lock, which is held until
\* commit, so everything from the first flush to the commit is one step.

Done(p, res) == [req EXCEPT ![p].pc = "done", ![p].res = res]

Goto(p, pc) == [req EXCEPT ![p].pc = pc]

\* the callers and targets of the racing requests
RaceOperatorIds == {<<WS, "o1", WS>>, <<"m1">>, <<"a2">>}

RaceConvIds == {<<WS, ToString(1)>>} \cup {<<ToString(c)>> : c \in 2..MaxConvs}

\* ---- claim_conversation
\* strip the ids, read the operator row
ClaimBegin(p, rc, ro) ==
    /\ req[p].pc = "idle"
    /\ req' = [req EXCEPT ![p] =
                 [Idle EXCEPT !.op = "claim", !.conv = ConvArg(rc), !.who = OpArg(ro),
                              !.pc = IF Missing(rc) \/ Missing(ro) \/ OpArg(ro) \notin Operators
                                     THEN "done" ELSE "claim_conv"]]
    /\ UNCHANGED <<now, convs, status, subs, grace, policy, last, writes, live>>

\* read the conversation row: found, QUEUED, same tenant
ClaimReadConv(p) ==
    /\ req[p].pc = "claim_conv"
    /\ req' = IF ClaimConvOk(convs, req[p].conv, req[p].who)
              THEN [req EXCEPT ![p].pc = "claim_status",
                               ![p].inbox = convs[req[p].conv].inbox]
              ELSE Done(p, "none")
    /\ UNCHANGED <<now, convs, status, subs, grace, policy, last, writes, live>>

\* read the operator_status row
ClaimReadStatus(p) ==
    /\ req[p].pc = "claim_status"
    /\ req' = IF AvailableOk(status, req[p].who) THEN Goto(p, "claim_commit")
              ELSE Done(p, "none")
    /\ UNCHANGED <<now, convs, status, subs, grace, policy, last, writes, live>>

\* flush (UPDATE conversation_refs SET state, assigned_operator_id WHERE id),
\* subscription lookup and insert, commit
ClaimCommit(p) ==
    /\ req[p].pc = "claim_commit"
    /\ convs' = [convs EXCEPT ![req[p].conv] = AllocateRow(@, req[p].who)]
    /\ subs' = Subscribe(subs, req[p].who, req[p].inbox)
    /\ req' = Done(p, "ok")
    /\ UNCHANGED <<now, status, grace, policy, last, writes, live>>

\* ---- allocate_next_conversation
AllocBegin(p, ro) ==
    /\ req[p].pc = "idle"
    /\ req' = [req EXCEPT ![p] =
                 [Idle EXCEPT !.op = "allocate", !.who = OpArg(ro),
                              !.pc = IF Missing(ro) \/ OpArg(ro) \notin Operators
                                     THEN "done" ELSE "alloc_status"]]
    /\ UNCHANGED <<now, convs, status, subs, grace, policy, last, writes, live>>

AllocReadStatus(p) ==
    /\ req[p].pc = "alloc_status"
    /\ req' = IF AvailableOk(status, req[p].who) THEN Goto(p, "alloc_fetch")
              ELSE Done(p, "none")
    /\ UNCHANGED <<now, convs, status, subs, grace, policy, last, writes, live>>

\* fetch the candidates, score them in the session, pick the top one
AllocFetch(p) ==
    /\ req[p].pc = "alloc_fetch"
    /\ LET tenant == OperatorTenant(req[p].who) IN
       IF Queued(convs, tenant) = {} THEN req' = Done(p, "none")
       ELSE \E W \in CandidateSets(convs, tenant) :
              LET sc == Scores(convs, W, tenant, now) IN
              \E top \in TopCandidates(convs, sc, W) :
                 req' = [req EXCEPT ![p].pc = "alloc_refetch",
                                    ![p].conv = top,
                                    ![p].inbox = convs[top].inbox,
                                    \* the scores that differ from the loaded ones
                                    ![p].scores = [c \in {x \in W : sc[x] # convs[x].priority_score}
                                                     |-> sc[c]]]
    /\ UNCHANGED <<now, convs, status, subs, grace, policy, last, writes, live>>

\* the UPDATE writing the whole row as it was loaded (QUEUED, no assignee)
FlushScores_WholeRow(cs, sc) ==
    [c \in ConvIds |-> IF c \in DOMAIN sc
                       THEN [DeallocateRow(cs[c]) EXCEPT !.priority_score = sc[c]]
                       ELSE cs[c]]

\* UPDATE ... SET priority_score WHERE id, for the session's dirty candidates
FlushScores(cs, sc) ==
    [c \in ConvIds |-> IF c \in DOMAIN sc THEN [cs[c] EXCEPT !.priority_score = sc[c]]
                       ELSE cs[c]]

\* the re-fetch without its condition on the state
StillQueued_AnyState(cs, c) == cs[c].state # "ABSENT"

StillQueued(cs, c) == cs[c].state = "QUEUED"

\* The re-fetch of the top candidate. With dirty scores in the session the
\* SELECT autoflushes first: the write lock is taken, and re-check and
\* commit (or rollback) are one step. With nothing to flush the re-check is
\* a plain read and the commit is a later step.
AllocRefetch(p) ==
    /\ req[p].pc = "alloc_refetch"
    /\ IF DOMAIN req[p].scores # {}
       THEN IF StillQueued(convs, req[p].conv)
            THEN /\ convs' = [FlushScores(convs, req[p].scores)
                                EXCEPT ![req[p].conv] = AllocateRow(@, req[p].who)]
                 /\ subs' = Subscribe(subs, req[p].who, req[p].inbox)
                 /\ req' = Done(p, "ok")
            ELSE /\ UNCHANGED <<convs, subs>>
                 /\ req' = Done(p, "none")
       ELSE /\ UNCHANGED <<convs, subs>>
            /\ req' = IF StillQueued(convs, req[p].conv) THEN Goto(p, "alloc_commit")
                      ELSE Done(p, "none")
    /\ UNCHANGED <<now, status, grace, policy, last, writes, live>>

AllocCommit(p) ==
    /\ req[p].pc = "alloc_commit"
    /\ convs' = [convs EXCEPT ![req[p].conv] = AllocateRow(@, req[p].who)]
    /\ subs' = Subscribe(subs, req[p].who, req[p].inbox)
    /\ req' = Done(p, "ok")
    /\ UNCHANGED <<now, status, grace, policy, last, writes, live>>

\* ---- the stores the race starts from: conversation 1 QUEUED on inbox i1,
\* conversation 2 absent or QUEUED on inbox i2, scores never computed or as
\* the last listQueued left them
RaceRows(n1, n2, t2) ==
    [c \in ConvIds |->
        IF c = 1 THEN [NewConv("t1", "i1", "x1", 1) EXCEPT !.message_count = n1]
        ELSE IF c = 2 /\ n2 > 0 THEN [NewConv("t1", "i2", "x1", t2) EXCEPT !.message_count = n2]
        ELSE NoConv]

Listed(cs) ==
    LET W == CHOOSE X \in CandidateSets(cs, "t1") : TRUE
    IN  ScoreRows(cs, Scores(cs, W, "t1", MaxTime), W)

InitRace ==
    /\ now = MaxTime
    /\ policy = [t \in Tenants |-> {}]
    /\ \E n1 \in 1..2, n2 \in 0..2, t2 \in Times, listed \in BOOLEAN :
          convs = IF listed THEN Listed(RaceRows(n1, n2, t2)) ELSE RaceRows(n1, n2, t2)
    /\ \E s \in {"AVAILABLE", "OFFLINE"} :
          status = [o \in Operators |->
                      IF o = "m1" THEN s ELSE IF HasStatusRow(o) THEN "AVAILABLE" ELSE NULL]
    /\ subs = {}
    /\ grace = << >>
    /\ last = Call("init", "ok")
    /\ writes = 0
    /\ live = TRUE
    /\ req = [p \in Procs |-> Idle]

NextRace ==
    \/ \E p \in Procs, rc \in RaceConvIds, ro \in RaceOperatorIds : ClaimBegin(p, rc, ro)
    \/ \E p \in Procs : ClaimReadConv(p)
    \/ \E p \in Procs : ClaimReadStatus(p)
    \/ \E p \in Procs : ClaimCommit(p)
    \/ \E p \in Procs, ro \in RaceOperatorIds : AllocBegin(p, ro)
    \/ \E p \in Procs : AllocReadStatus(p)
    \/ \E p \in Procs : AllocFetch(p)
    \/ \E p \in Procs : AllocRefetch(p)
    \/ \E p \in Procs : AllocCommit(p)

SpecRace == InitRace /\ [][NextRace]_vars

\* =============================================================== SpecList
\* The racing claim and allocateNext handlers together with listQueued.
\* listQueued reads the operator, its status and the candidates with plain
\* SELECTs and scores them in the session; its first UPDATE flushes and
\* takes the write lock, which it keeps until the commit.
ListBegin(p, ro) ==
    /\ req[p].pc = "idle"
    /\ req' = [req EXCEPT ![p] =
                 [Idle EXCEPT !.op = "list", !.who = OpArg(ro),
                              !.pc = IF Missing(ro) \/ OpArg(ro) \notin Operators
                                     THEN "done" ELSE "list_fetch"]]
    /\ UNCHANGED <<now, convs, status, subs, grace, policy, last, writes, live>>

\* fetch the candidates and score them in the session
ListFetch(p) ==
    /\ req[p].pc = "list_fetch"
    /\ LET tenant == OperatorTenant(req[p].who) IN
       IF Queued(convs, tenant) = {} THEN req' = Done(p, "none")
       ELSE \E W \in CandidateSets(convs, tenant) :
              req' = [req EXCEPT ![p].pc = "list_write",
                                 ![p].scores = Scores(convs, W, tenant, now)]
    /\ UNCHANGED <<now, convs, status, subs, grace, policy, last, writes, live>>

\* UPDATE conversation_refs SET priority_score WHERE id, for every
\* candidate, and commit
ListWrite(p) ==
    /\ req[p].pc = "list_write"
    /\ convs' = FlushScores(convs, req[p].scores)
    /\ req' = Done(p, "ok")
    /\ UNCHANGED <<now, status, subs, grace, policy, last, writes, live>>

NextList ==
    \/ NextRace
    \/ \E p \in Procs, ro \in RaceOperatorIds : ListBegin(p, ro)
    \/ \E p \in Procs : ListFetch(p)
    \/ \E p \in Procs : ListWrite(p)

SpecList == InitRace /\ [][NextList]_vars

\* ============================================================ SpecOffline
\* The racing handlers together with operatorGoesOffline requests. The
\* first statement of operator_goes_offline is an UPDATE, so it takes the
\* write lock at once and the whole handler is one step.
MaxOffline == 1    \* operatorGoesOffline requests served during the race

RaceOfflineIds == {"o1", "m1"}

RaceGoesOffline(o) ==
    /\ writes < MaxOffline
    /\ writes' = writes + 1
    /\ OperatorGoesOffline(o)
    /\ UNCHANGED live

NextOffline ==
    \/ NextRace
    \/ \E o \in RaceOfflineIds : RaceGoesOffline(o)

SpecOffline == InitRace /\ [][NextOffline]_vars

\* =============================================================== SpecLive
\* The service with its scheduler running: requests arrive while the clock
\* is within 1..MaxTime and are counted against MaxWrites (a request that
\* changes nothing is left out: the store after it is the store before it);
\* the clock runs on to MaxTime + GraceMinutes, the expiry of the last
\* entry a request can add, and the sweeper is never refused. listQueued
\* and move, which write only scores and inboxes, and the ticks that fail,
\* which write nothing, are left out. The scheduler
\* runs run_grace_expiry_job every minute and the job swallows every
\* exception, so the clock and the sweeper are weakly fair.

Commit ==
    /\ now <= MaxTime
    /\ store' # store
    /\ writes' = writes + 1
    /\ writes' <= MaxWrites
    /\ live' = live

TickLive ==
    /\ now < MaxTime + GraceMinutes
    /\ now' = now + 1
    /\ UNCHANGED <<convs, status, subs, grace, policy, last, writes, live, req>>

RunGraceExpiryJob == ProcessGraceExpiry /\ UNCHANGED <<writes, live>>

NextLive ==
    \/ \E i \in MessageInboxes, x \in ExtIds : CreateOrUpdateConversation(i, x) /\ Commit
    \/ \E rc \in RawConvIds, ro \in RawOperatorIds : ClaimConversation(rc, ro) /\ Commit
    \/ \E ro \in RawOperatorIds : AllocateNextConversation(ro) /\ Commit
    \/ \E rc \in RawConvIds, ro \in RawOperatorIds : ResolveConversation(rc, ro) /\ Commit
    \/ \E rc \in RawConvIds : DeallocateConversation(rc) /\ Commit
    \/ \E call \in ReassignCalls :
          ReassignConversation(call[1], call[2], call[3]) /\ Commit
    \/ \E o \in StatusCallers : OperatorGoesOffline(o) /\ Commit
    \/ \E o \in StatusCallers : OperatorGoesOnline(o) /\ Commit
    \/ RunGraceExpiryJob
    \/ TickLive

SpecLive ==
    Init /\ [][NextLive]_vars /\ WF_vars(TickLive) /\ WF_vars(RunGraceExpiryJob)

\* ============================================================== SpecScore
\* The scorer and the two handlers that apply it, started from every queue of
\* tenant t1 with up to MaxConvs QUEUED conversations, message counts in
\* 1..MaxCount, last activity in Times, and a policy record that is absent
\* or holds one of Weights. The operator o1 is AVAILABLE. The start state
\* ExampleQueue is the worked example of the scoring rule.

Weights == {[alpha |-> 2, beta |-> 1], [alpha |-> 1, beta |-> 3]}

ExternalIdOf(c) == <<"x1", "x2", "x3", "x4">>[c]

QueuedRow(c, count, t) ==
    [NewConv("t1", "i1", ExternalIdOf(c), t) EXCEPT !.message_count = count]

QueueRows == {NoConv} \cup UNION {{[count |-> n, at |-> t] : n \in 1..MaxCount} : t \in Times}

\* now = 101; conversation 1: 10 messages, last activity 5 minutes ago;
\* conversation 2: 1 message, last activity 100 minutes ago; alpha 2, beta 1
ExampleQueue ==
    /\ now = 101
    /\ convs = [c \in ConvIds |-> IF c = 1 THEN QueuedRow(1, 10, 96)
                                  ELSE IF c = 2 THEN QueuedRow(2, 1, 1)
                                  ELSE NoConv]
    /\ policy = [t \in Tenants |-> IF t = "t1" THEN {[alpha |-> 2, beta |-> 1]} ELSE {}]

InitScore ==
    /\ \/ /\ now = MaxTime
          /\ \E q \in [ConvIds -> QueueRows] :
                convs = [c \in ConvIds |-> IF q[c] = NoConv THEN NoConv
                                           ELSE QueuedRow(c, q[c].count, q[c].at)]
          /\ \E w \in {{}} \cup {{r} : r \in Weights} :
                policy = [t \in Tenants |-> IF t = "t1" THEN w ELSE {}]
       \/ ExampleQueue
    /\ status = [o \in Operators |-> IF ~HasStatusRow(o) THEN NULL
                                     ELSE IF o = "o1" THEN "AVAILABLE" ELSE "OFFLINE"]
    /\ subs = {}
    /\ grace = << >>
    /\ last = Call("init", "ok")
    /\ writes = 0
    /\ live = TRUE
    /\ req = [p \in Procs |-> Idle]

NextScore ==
    \/ ListQueuedConversations(<<WS, "o1", WS>>) /\ UNCHANGED <<writes, live>>
    \/ AllocateNextConversation(<<WS, "o1", WS>>) /\ UNCHANGED <<writes, live>>

SpecScore == InitScore /\ [][NextScore]_vars

\* ============================================================= SpecWindow
\* SpecScore with the LIMIT of the candidate query scaled from 100 down to
\* WindowSize, so that queues longer than the window occur within MaxConvs
\* conversations. Nothing else of the two handlers depends on the limit.
NextWindow ==
    \/ ListQueuedWithin(<<WS, "o1", WS>>, WindowSize) /\ UNCHANGED <<writes, live>>
    \/ AllocateNextWithin(<<WS, "o1", WS>>, WindowSize) /\ UNCHANGED <<writes, live>>

SpecWindow == InitScore /\ [][NextWindow]_vars

\* ============================================================== SpecGrace
\* The service from the states in which conversations are already held:
\* every conversation is absent or ALLOCATED to o1 or m1 (claimed from inbox
\* i1 at time 1), each of the two operators is AVAILABLE or has just gone
\* offline, and the ledger holds the entries that going offline added.
\* Requests are serial and counted against MaxWrites as in Spec.

Holders == {"o1", "m1"}

HeldRow(c, o) == AllocateRow(NewConv("t1", "i1", ExternalIdOf(c), 1), o)

\* the ids a manager names as reassignment targets
GraceTargets == {<<WS, "o1", WS>>, <<"m1">>}

InitGrace ==
    /\ now = 1
    /\ \E h \in [ConvIds -> Holders \cup {NULL}] :
          /\ convs = [c \in ConvIds |-> IF h[c] = NULL THEN NoConv ELSE HeldRow(c, h[c])]
          /\ subs = {<<h[c], "i1">> : c \in {x \in ConvIds : h[x] # NULL}}
    /\ \E away \in SUBSET Holders :
          /\ status = [o \in Operators |->
                          IF ~HasStatusRow(o) THEN NULL
                          ELSE IF o \in Holders \ away THEN "AVAILABLE" ELSE "OFFLINE"]
          /\ grace = GraceAdd(<< >>, UNION {{GraceRow(c, o, now + GraceMinutes) :
                                              c \in HeldBy(convs, o)} : o \in away})
    /\ policy = [t \in Tenants |-> {}]
    /\ last = Call("init", "ok")
    /\ writes = 0
    /\ live = TRUE
    /\ req = [p \in Procs |-> Idle]

NextGrace ==
    \/ live /\ \E rc \in RawConvIds, ro \in RawOperatorIds :
                  ClaimConversation(rc, ro) /\ Account
    \/ live /\ \E rc \in RawConvIds, ro \in RawOperatorIds :
                  ResolveConversation(rc, ro) /\ Account
    \/ live /\ \E rc \in RawConvIds : DeallocateConversation(rc) /\ Account
    \/ live /\ \E rc \in RawConvIds, rt \in GraceTargets :
                  ReassignConversation(rc, rt, <<"m1">>) /\ Account
    \/ live /\ \E o \in Holders : OperatorGoesOffline(o) /\ Account
    \/ live /\ \E o \in Holders : OperatorGoesOnline(o) /\ Account
    \/ live /\ ProcessGraceExpiry /\ Account
    \/ live /\ Tick

SpecGrace == InitGrace /\ [][NextGrace]_vars

\* ============================================================= SpecManage
\* The manager operations from every store in which each conversation is
\* absent, QUEUED, ALLOCATED (claimed by o1 on inbox i1) or RESOLVED (by
\* o1): reassign, moveInbox and deallocate with every combination of
\* arguments, serial and counted against MaxWrites as in Spec.
RowKinds == {"ABSENT", "QUEUED", "ALLOCATED", "RESOLVED"}

ManagedRow(c, kind) ==
    CASE kind = "ABSENT"    -> NoConv
      [] kind = "QUEUED"    -> NewConv("t1", "i1", ExternalIdOf(c), 1)
      [] kind = "ALLOCATED" -> HeldRow(c, "o1")
      [] kind = "RESOLVED"  -> ResolveRow(HeldRow(c, "o1"), 1)

InitManage ==
    /\ now = 1
    /\ \E k \in [ConvIds -> RowKinds] :
          /\ convs = [c \in ConvIds |-> ManagedRow(c, k[c])]
          /\ subs = IF \E c \in ConvIds : k[c] \in {"ALLOCATED", "RESOLVED"}
                    THEN {<<"o1", "i1">>} ELSE {}
    /\ status = [o \in Operators |->
                    IF ~HasStatusRow(o) THEN NULL
                    ELSE IF o = "o1" THEN "AVAILABLE" ELSE "OFFLINE"]
    /\ grace = << >>
    /\ policy = [t \in Tenants |-> {}]
    /\ last = Call("init", "ok")
    /\ writes = 0
    /\ live = TRUE
    /\ req = [p \in Procs |-> Idle]

NextManage ==
    \/ live /\ \E call \in ReassignCalls :
                  ReassignConversation(call[1], call[2], call[3]) /\ Account
    \/ live /\ \E call \in MoveCalls :
                  MoveConversationInbox(call[1], call[2], call[3]) /\ Account
    \/ live /\ \E rc \in RawConvIds : DeallocateConversation(rc) /\ Account

SpecManage == InitManage /\ [][NextManage]_vars

\* ============================================================== SpecSweep
\* Two sweeper ticks that overlap (the scheduler's job and the job started
\* through the API run process_grace_expiry in different threads), with
\* claims served in between. The store starts as in SpecGrace at the time
\* the entries lapse. A tick's session keeps the entries it selected
\* (seen) and the conversations it has set to QUEUED but not yet flushed
\* (revert); the first conversation is read before anything is dirty, the
\* next SELECT or the commit flushes, and from the flush on the tick holds
\* the write lock.

\* select(GracePeriodAssignment).where(expires_at <= now)
SweepBegin(p) ==
    /\ req[p].pc = "idle"
    /\ LET seen == [r \in Expired(grace, now) |-> grace[r]] IN
       req' = [req EXCEPT ![p] =
                 [Idle EXCEPT !.op = "sweep", !.seen = seen,
                              !.pc = IF DOMAIN seen = {} THEN "done" ELSE "sweep_first",
                              !.res = IF DOMAIN seen = {} THEN "ok" ELSE "none"]]
    /\ UNCHANGED <<now, convs, status, subs, grace, policy, last, writes, live>>

\* the first entry of the loop: its conversation is read with a plain
\* SELECT and, if ALLOCATED, set to QUEUED in the session
SweepFirst(p) ==
    /\ req[p].pc = "sweep_first"
    /\ \E r \in DOMAIN req[p].seen :
          req' = [req EXCEPT ![p].pc = "sweep_commit",
                             ![p].conv = r.conv,
                             ![p].revert = IF convs[r.conv].state = "ALLOCATED"
                                           THEN {r.conv} ELSE {}]
    /\ UNCHANGED <<now, convs, status, subs, grace, policy, last, writes, live>>

\* The flush and the rest of the loop. The conversation of the first entry
\* stays in the session as it was loaded; every other conversation an entry
\* names is read now. A DELETE that matches no row only raises a warning.
SweepCommit(p) ==
    /\ req[p].pc = "sweep_commit"
    /\ LET others == {c \in ConvIds \ {req[p].conv} :
                        /\ convs[c].state = "ALLOCATED"
                        /\ \E r \in DOMAIN req[p].seen : r.conv = c}
           R == req[p].revert \cup others
       IN  /\ convs' = [c \in ConvIds |->
                          IF c \in R THEN DeallocateRow(convs[c]) ELSE convs[c]]
           /\ grace' = GraceDelete(grace, DOMAIN req[p].seen)
    /\ req' = Done(p, "ok")
    /\ UNCHANGED <<now, status, subs, policy, last, writes, live>>

InitSweep ==
    /\ now = MaxTime
    /\ \E h \in [ConvIds -> Holders \cup {NULL}] :
          /\ convs = [c \in ConvIds |-> IF h[c] = NULL THEN NoConv ELSE HeldRow(c, h[c])]
          /\ subs = {<<h[c], "i1">> : c \in {x \in ConvIds : h[x] # NULL}}
    /\ \E away \in SUBSET Holders :
          /\ status = [o \in Operators |->
                          IF ~HasStatusRow(o) THEN NULL
                          ELSE IF o \in Holders \ away THEN "AVAILABLE" ELSE "OFFLINE"]
          /\ grace = GraceAdd(<< >>, UNION {{GraceRow(c, o, now) :
                                              c \in HeldBy(convs, o)} : o \in away})
    /\ policy = [t \in Tenants |-> {}]
    /\ last = Call("init", "ok")
    /\ writes = 0
    /\ live = TRUE
    /\ req = [p \in Procs |-> Idle]

NextSweep ==
    \/ \E p \in Procs : SweepBegin(p)
    \/ \E p \in Procs : SweepFirst(p)
    \/ \E p \in Procs : SweepCommit(p)
    \/ \E rc \in RaceConvIds, ro \in RaceOperatorIds :
          ClaimConversation(rc, ro) /\ UNCHANGED <<writes, live>>

SpecSweep == InitSweep /\ [][NextSweep]_vars

\* ================================================================ claims
\* The raw ids that name a conversation row id, an existing operator, a
\* MANAGER/ADMIN.
ConvNames == {rc \in RawConvIds : ~Missing(rc) /\ ConvArg(rc) \in ConvIds}

KnownCallers == {ro \in RawOperatorIds : ~Missing(ro) /\ OpArg(ro) \in Operators}

KnownTargets == {rt \in RawTargetIds : ~Missing(rt) /\ OpArg(rt) \in Operators}

ManagerCallers ==
    {ro \in RawManagerIds : /\ ~Missing(ro)
                            /\ OpArg(ro) \in Operators
                            /\ OperatorRole(OpArg(ro)) \in {"MANAGER", "ADMIN"}}

\* both handlers have finished, each having targeted conversation c
BothTargeted(c) == \A p \in Procs : req[p].pc = "done" /\ req[p].conv = c

\* C1 (SpecRace): two concurrent claims of the same QUEUED conversation by
\* distinct AVAILABLE operators of its tenant, under every interleaving of
\* their steps: exactly one returns the conversation, the other returns
\* no-match, and the conversation ends ALLOCATED to the one that succeeded.
C1_ExactlyOneClaimWins ==
    \A c \in ConvIds :
        (/\ BothTargeted(c)
         /\ \A p \in Procs : /\ req[p].op = "claim"
                             /\ status[req[p].who] = "AVAILABLE"
                             /\ OperatorTenant(req[p].who) = convs[c].tenant
         /\ req[1].who # req[2].who)
        => \E p \in Procs : /\ req[p].res = "ok"
                            /\ req[3 - p].res = "none"
                            /\ convs[c].state = "ALLOCATED"
                            /\ convs[c].assigned = req[p].who

\* C2 (SpecRace): two concurrent calls, at least one of them allocateNext,
\* that target the same QUEUED conversation: at most one of them returns it
\* as allocated, under every interleaving of their steps.
C2_AtMostOneAllocation ==
    \A c \in ConvIds :
        (/\ BothTargeted(c)
         /\ \E p \in Procs : req[p].op = "allocate")
        => ~(\A p \in Procs : req[p].res = "ok")

\* C3: in every reachable state each conversation has a non-null assigned
\* operator if and only if its state is ALLOCATED.
C3_AssignedIffAllocated ==
    \A c \in ConvIds :
        Exists(convs, c) => ((convs[c].assigned # NULL) <=> (convs[c].state = "ALLOCATED"))

\* C4: in every reachable state each conversation has resolved_at set if and
\* only if its state is RESOLVED.
C4_ResolvedAtIffResolved ==
    \A c \in ConvIds :
        Exists(convs, c) => ((convs[c].resolved_at # NoTime) <=> (convs[c].state = "RESOLVED"))

\* C5: once a conversation's resolved_at has been set, no later operation
\* changes its value.
C5_ResolvedAtImmutable ==
    [][\A c \in ConvIds :
          convs[c].resolved_at # NoTime => convs'[c].resolved_at = convs[c].resolved_at]_vars

\* In the formulas about one handler's calls, the leading test of last'.op
\* only spares the quantifier on the steps of the other handlers: the
\* handler's own formula implies it.

\* C6 (as stated): resolve on an already RESOLVED conversation, whatever the
\* caller id, returns the record and changes no field of the conversation.
C6_ResolveIdempotent ==
    [][last'.op = "resolve" =>
       \A rc \in ConvNames, ro \in RawOperatorIds :
          (/\ convs[ConvArg(rc)].state = "RESOLVED"
           /\ ResolveConversation(rc, ro))
          => (last'.res = "ok" /\ convs' = convs)]_vars

\* C6 (amended): resolve on an already RESOLVED conversation changes no field
\* of the conversation; it returns the record when the caller is an existing
\* operator (of any role and tenant) and no-match when the caller id is blank
\* or names no operator. The store after the call being the store before it,
\* the same holds for every repetition.
C6_ResolveIdempotentForKnownCaller ==
    [][last'.op = "resolve" =>
       \A rc \in ConvNames, ro \in RawOperatorIds :
          (/\ convs[ConvArg(rc)].state = "RESOLVED"
           /\ ResolveConversation(rc, ro))
          => /\ convs' = convs
             /\ last'.res = IF ro \in KnownCallers THEN "ok" ELSE "none"]_vars

\* a resolve call has returned the record and changed nothing, with a
\* RESOLVED conversation in the store
C6_Witness ==
    /\ last = Call("resolve", "ok")
    /\ ~live
    /\ \E c \in ConvIds : convs[c].state = "RESOLVED"

\* a caller who is neither the conversation's assignee nor a MANAGER/ADMIN of
\* its tenant
Outsider(c, o) ==
    /\ convs[c].assigned # o
    /\ ~(OperatorRole(o) \in {"MANAGER", "ADMIN"} /\ OperatorTenant(o) = convs[c].tenant)

C8_ResolvedOnlyFromAllocated ==
    [][\A c \in ConvIds :
          (convs[c].state # "RESOLVED" /\ convs'[c].state = "RESOLVED")
          => convs[c].state = "ALLOCATED"]_vars

C10_ClaimRefusals ==
    [][last'.op = "claim" =>
       \A rc \in RawConvIds, ro \in RawOperatorIds :
          (/\ \/ rc \notin ConvNames
              \/ ro \notin KnownCallers
              \/ convs[ConvArg(rc)].state # "QUEUED"
              \/ OperatorTenant(OpArg(ro)) # convs[ConvArg(rc)].tenant
              \/ status[OpArg(ro)] # "AVAILABLE"
           /\ ClaimConversation(rc, ro))
          => (last'.res = "none" /\ UNCHANGED <<convs, subs, grace>>)]_vars

\* a claim has been refused while a QUEUED conversation and an operator who
\* is not AVAILABLE exist
C10_Witness ==
    /\ last = Call("claim", "none")
    /\ \E c \in ConvIds : convs[c].state = "QUEUED"
    /\ \E o \in Operators : status[o] = "OFFLINE"

\* C11: allocateNext returns "nothing available" and leaves every
\* conversation, every subscription and every grace entry unchanged whenever
\* the operator id is blank or names no operator, or the operator has no
\* status record or is not AVAILABLE, or no conversation of the operator's
\* tenant is QUEUED.
C11_AllocateRefusals ==
    [][last'.op = "allocate" =>
       \A ro \in RawOperatorIds :
          (/\ \/ ro \notin KnownCallers
              \/ status[OpArg(ro)] # "AVAILABLE"
              \/ ~\E c \in ConvIds : /\ convs[c].state = "QUEUED"
                                     /\ convs[c].tenant = OperatorTenant(OpArg(ro))
           /\ AllocateNextConversation(ro))
          => (last'.res = "none" /\ UNCHANGED <<convs, subs, grace>>)]_vars

\* allocateNext has returned nothing while a conversation is QUEUED and an
\* operator of another tenant is AVAILABLE
C11_Witness ==
    /\ last = Call("allocate", "none")
    /\ \E c \in ConvIds, o \in Operators :
          /\ convs[c].state = "QUEUED"
          /\ status[o] = "AVAILABLE"
          /\ OperatorTenant(o) # convs[c].tenant

\* C12 (SpecScore): the conversation allocateNext allocates has a freshly
\* computed score that is maximal among the operator tenant's QUEUED
\* conversations and, among those of maximal score, an oldest last
\* activity; the list listQueued returns holds exactly those conversations
\* in that order: score descending, then last activity ascending.
C12_AllocationOrder ==
    [][(last'.op \in {"allocate", "list"} /\ last'.res = "ok") =>
       LET got == last'.rows
           tenant == OperatorTenant("o1")
           W == {c \in ConvIds : convs[c].state = "QUEUED" /\ convs[c].tenant = tenant}
           fresh(c) == CalculatePriority(convs, c, W, tenant, now)
           NotAfter(x, y) ==
               /\ ~RatLess(fresh(x), fresh(y))
               /\ fresh(x) = fresh(y)
                     => convs[x].last_message_at <= convs[y].last_message_at
       IN  IF last'.op = "allocate"
           THEN /\ Len(got) = 1
                /\ got[1] \in W
                /\ convs'[got[1]].state = "ALLOCATED"
                /\ \A y \in W : NotAfter(got[1], y)
           ELSE /\ Len(got) = Cardinality(W)
                /\ {got[i] : i \in 1..Len(got)} = W
                /\ \A i, j \in 1..Len(got) : i < j => NotAfter(got[i], got[j])]_vars

\* allocateNext has allocated a conversation while another one with the same
\* fresh score and a later last activity stays QUEUED
C12_Witness ==
    /\ last.op = "allocate"
    /\ last.res = "ok"
    /\ \E y \in ConvIds :
          /\ convs[y].state = "QUEUED"
          /\ convs[y].priority_score = convs[last.rows[1]].priority_score
          /\ convs[y].last_message_at > convs[last.rows[1]].last_message_at

\* the QUEUED conversations of tenant t1 and the candidate sets drawn from them
QueuedT1 == {c \in ConvIds : convs[c].state = "QUEUED" /\ convs[c].tenant = "t1"}

CandidateSetsT1 == {W \in SUBSET QueuedT1 : Cardinality(W) >= 2}

CountsOf(W) == {convs[x].message_count : x \in W}

DelaysOf(W) == {now - convs[x].last_message_at : x \in W}

\* the fraction f lies in [0, 1]
InUnit(f) == f[2] > 0 /\ 0 <= f[1] /\ f[1] <= f[2]

\* C13 (SpecScore): for every candidate set with at least two members and
\* every member of it, the normalized message count and the normalized delay
\* each lie in [0, 1], and a dimension whose maximum equals its minimum over
\* the set is normalized to exactly 0.
C13_NormalizedInUnit ==
    \A W \in CandidateSetsT1 : \A c \in W :
       LET minc == SetMin(CountsOf(W))
           maxc == SetMax(CountsOf(W))
           mind == SetMin(DelaysOf(W))
           maxd == SetMax(DelaysOf(W))
           nc == NormalizeValue(convs[c].message_count, minc, maxc)
           nd == NormalizeValue(now - convs[c].last_message_at, mind, maxd)
       IN  /\ InUnit(nc)
           /\ InUnit(nd)
           /\ maxc = minc => nc[1] = 0
           /\ maxd = mind => nd[1] = 0

\* listQueued has scored two conversations with equal message counts and
\* different last activity
C13_Witness ==
    /\ last.op = "list"
    /\ \E W \in CandidateSetsT1 :
          /\ Cardinality(CountsOf(W)) = 1
          /\ Cardinality(DelaysOf(W)) > 1
          /\ \E c \in W : convs[c].priority_score # <<0, 1>>

\* the weights the tenant's policy record holds, 1 and 1 without a record
Alpha(t) == IF policy[t] = {} THEN 1 ELSE (CHOOSE r \in policy[t] : TRUE).alpha

Beta(t) == IF policy[t] = {} THEN 1 ELSE (CHOOSE r \in policy[t] : TRUE).beta

\* C14 (SpecScore): the scorer returns 0 for an empty candidate set and
\* exactly alpha + beta (the tenant's resolved weights, 1 and 1 without a
\* policy record) for a candidate set of size one, whatever the
\* conversation's message count and last activity.
C14_EmptyAndSingleton ==
    \A c \in ConvIds :
       /\ CalculatePriority(convs, c, {}, "t1", now) = <<0, 1>>
       /\ CalculatePriority(convs, c, {c}, "t1", now) = <<Alpha("t1") + Beta("t1"), 1>>

\* listQueued has scored the only QUEUED conversation of a tenant that has a
\* policy record
C14_Witness ==
    /\ last.op = "list"
    /\ Len(last.rows) = 1
    /\ policy["t1"] # {}
    /\ convs[last.rows[1]].priority_score = <<Alpha("t1") + Beta("t1"), 1>>

\* min-max normalization of v over the values S, as a fraction
MinMax(v, S) ==
    IF \A x, y \in S : x = y THEN <<0, 1>>
    ELSE <<v - SetMin(S), SetMax(S) - SetMin(S)>>

\* C15 (SpecScore): for a candidate set of two or more the score equals
\* alpha * normalized_count + beta * normalized_delay under min-max
\* normalization over the set; with alpha = 2, beta = 1 and the candidates
\* {count 10, delay 5} and {count 1, delay 100} the scores are 2 and 1 and
\* allocateNext allocates the first.
C15_WeightedSum ==
    /\ \A W \in CandidateSetsT1 : \A c \in W :
          LET nc == MinMax(convs[c].message_count, CountsOf(W))
              nd == MinMax(now - convs[c].last_message_at, DelaysOf(W))
              score == CalculatePriority(convs, c, W, "t1", now)
          IN  score[1] * nc[2] * nd[2]
                 = score[2] * (Alpha("t1") * nc[1] * nd[2] + Beta("t1") * nd[1] * nc[2])
    /\ (now = 101 /\ QueuedT1 = {1, 2}) =>
          /\ CalculatePriority(convs, 1, {1, 2}, "t1", now) = <<2, 1>>
          /\ CalculatePriority(convs, 2, {1, 2}, "t1", now) = <<1, 1>>
    /\ (now = 101 /\ last.op = "allocate") =>
          /\ convs[1].state = "ALLOCATED"
          /\ convs[2].state = "QUEUED" => /\ last.rows = <<1>>
                                         /\ convs[1].priority_score = <<2, 1>>
                                         /\ convs[2].priority_score = <<1, 1>>

\* in the worked example allocateNext has allocated conversation 1 and
\* conversation 2 stays QUEUED
C15_Witness ==
    /\ now = 101
    /\ last = Returned("allocate", <<1>>)
    /\ convs[1].message_count = 10
    /\ convs[2].state = "QUEUED"

\* C16: operatorGoesOffline sets the availability of an operator that has a
\* status record to OFFLINE and adds exactly one grace entry per
\* conversation ALLOCATED to that operator, for that operator and expiring
\* at now + GraceMinutes; the number of copies of every other entry is
\* unchanged, so k held conversations add exactly k entries.
C16_OfflineAddsGrace ==
    [][last'.op = "offline" =>
       \A o \in StatusCallers :
          OperatorGoesOffline(o) =>
             /\ (o \in Operators /\ status[o] # NULL) => status'[o] = "OFFLINE"
             /\ \A c \in ConvIds :
                   LET r == [conv |-> c, op |-> o, exp |-> now + GraceMinutes] IN
                   GraceCount(grace', r) - GraceCount(grace, r)
                      = IF convs[c].state = "ALLOCATED" /\ convs[c].assigned = o
                        THEN 1 ELSE 0
             /\ \A r \in DOMAIN grace \cup DOMAIN grace' :
                   (r.op # o \/ r.exp # now + GraceMinutes)
                      => GraceCount(grace', r) = GraceCount(grace, r)]_vars

\* an operator has just gone offline holding an ALLOCATED conversation: the
\* entry for it expires GraceMinutes from now
C16_Witness ==
    /\ last = Call("offline", "ok")
    /\ \E r \in DOMAIN grace :
          /\ r.exp = now + GraceMinutes
          /\ status[r.op] = "OFFLINE"
          /\ convs[r.conv].state = "ALLOCATED"
          /\ convs[r.conv].assigned = r.op

\* C17: operatorGoesOnline sets the availability of an operator that has a
\* status record to AVAILABLE, deletes every grace entry of that operator,
\* and leaves every conversation and the grace entries of every other
\* operator unchanged.
C17_OnlineClearsGrace ==
    [][last'.op = "online" =>
       \A o \in StatusCallers :
          OperatorGoesOnline(o) =>
             /\ (o \in Operators /\ status[o] # NULL) => status'[o] = "AVAILABLE"
             /\ \A r \in DOMAIN grace' : r.op # o
             /\ convs' = convs
             /\ \A r \in DOMAIN grace \cup DOMAIN grace' :
                   r.op # o => GraceCount(grace', r) = GraceCount(grace, r)]_vars

\* an operator holding an ALLOCATED conversation has just come online and
\* no grace entry names the operator
C17_Witness ==
    /\ last = Call("online", "ok")
    /\ live
    /\ \E c \in ConvIds :
          /\ convs[c].state = "ALLOCATED"
          /\ convs[c].assigned \in Operators
          /\ status[convs[c].assigned] = "AVAILABLE"
          /\ \A r \in DOMAIN grace : r.op # convs[c].assigned

\* the grace entries whose expiry is not after now
Lapsed == {r \in DOMAIN grace : r.exp <= now}

\* C18: a sweeper tick removes every grace entry with expires_at <= now and
\* sets every conversation that such an entry names and that is still
\* ALLOCATED to QUEUED with no assignee; it changes no other entry and no
\* other conversation, so no lapsed entry is left and a second tick
\* immediately afterwards changes nothing.
C18_SweepReverts ==
    [][last'.op = "sweep" =>
       (ProcessGraceExpiry =>
          /\ \A r \in DOMAIN grace' : r.exp > now /\ GraceCount(grace, r) = grace'[r]
          /\ \A r \in DOMAIN grace \ Lapsed : GraceCount(grace', r) = grace[r]
          /\ \A c \in ConvIds :
                convs'[c] = IF /\ convs[c].state = "ALLOCATED"
                               /\ \E r \in Lapsed : r.conv = c
                            THEN [convs[c] EXCEPT !.state = "QUEUED", !.assigned = NULL]
                            ELSE convs[c]
          /\ Lapsed = {} => UNCHANGED store)]_vars

\* a tick has just removed the last lapsed entries and a conversation is
\* QUEUED
C18_Witness ==
    /\ last = Call("sweep", "ok")
    /\ live
    /\ grace = << >>
    /\ \E c \in ConvIds : convs[c].state = "QUEUED"

\* operator o is OFFLINE, conversation c is ALLOCATED to o, and the ledger
\* holds the entry that o's going offline added for c
OfflineHolding(c, o) ==
    /\ status[o] = "OFFLINE"
    /\ convs[c].state = "ALLOCATED"
    /\ convs[c].assigned = o
    /\ \E r \in DOMAIN grace : r.conv = c /\ r.op = o

\* C19 (SpecLive): if an operator goes offline while holding an ALLOCATED
\* conversation then, with the clock advancing and the sweeper ticking,
\* eventually the conversation is no longer ALLOCATED to that operator (it
\* was returned to QUEUED, resolved, deallocated or reassigned) or the
\* operator has come back online.
C19_OfflineEventuallyReleased ==
    \A c \in ConvIds, o \in Operators :
       OfflineHolding(c, o)
          ~> (\/ ~(convs[c].state = "ALLOCATED" /\ convs[c].assigned = o)
              \/ status[o] = "AVAILABLE")

\* an operator has just gone offline holding an ALLOCATED conversation
C19_Witness ==
    /\ last = Call("offline", "ok")
    /\ \E c \in ConvIds, o \in Operators : OfflineHolding(c, o)

\* C20: within one sweeper tick, a failure while processing one lapsed
\* grace entry does not prevent the other lapsed entries of that tick from
\* being processed: every lapsed entry other than the failing one is
\* deleted and its conversation, if still ALLOCATED, is reverted to QUEUED.
C20_FailureIsolated ==
    [][(last'.op = "sweep" /\ last'.res = "error") =>
       \E bad \in Lapsed :
          \A r \in Lapsed :
             /\ GraceCount(grace', r) <= (IF r = bad THEN 1 ELSE 0)
             /\ (r # bad \/ grace[bad] > 1)
                   => (convs[r.conv].state = "ALLOCATED"
                         => convs'[r.conv].state = "QUEUED")]_vars

\* C21: in every reachable state at most one conversation exists per
\* (tenant, inbox, external conversation id).
C21_UniqueTriple ==
    \A a, b \in ConvIds :
       (/\ Exists(convs, a)
        /\ Exists(convs, b)
        /\ convs[a].tenant = convs[b].tenant
        /\ convs[a].inbox = convs[b].inbox
        /\ convs[a].ext = convs[b].ext)
       => a = b

\* the conversations stored under the triple of inbox i and external id x
Stored(i, x) ==
    {c \in ConvIds : /\ convs[c].state # "ABSENT"
                     /\ convs[c].tenant = InboxTenant(i)
                     /\ convs[c].inbox = i
                     /\ convs[c].ext = x}

\* onMessage(i, x) leaves every stored score unchanged and lowers no count
ScoresKept ==
    \A c \in ConvIds :
       convs[c].state # "ABSENT"
          => /\ convs'[c].priority_score = convs[c].priority_score
             /\ convs'[c].message_count >= convs[c].message_count

\* onMessage(i, x) has created a QUEUED conversation with score 0
Created(i, x) ==
    \E c \in ConvIds :
       /\ convs[c].state = "ABSENT"
       /\ convs'[c].state = "QUEUED"
       /\ convs'[c].priority_score = <<0, 1>>
       /\ convs'[c].message_count = 1
       /\ convs'[c].last_message_at = now
       /\ convs'[c].assigned = NULL
       /\ convs'[c].inbox = i /\ convs'[c].ext = x
       /\ \A d \in ConvIds \ {c} : convs'[d] = convs[d]

\* onMessage(i, x) has counted the message on conversation c
Touched(c) ==
    /\ convs'[c] = [convs[c] EXCEPT !.message_count = @ + 1, !.last_message_at = now]
    /\ \A d \in ConvIds \ {c} : convs'[d] = convs[d]

C23_ListAnnotates ==
    [][last'.op = "list" =>
       \A ro \in KnownCallers :
          ListQueuedConversations(ro) =>
             /\ last'.res = "ok"
             /\ last'.avail = IF status[OpArg(ro)] = NULL THEN "UNKNOWN"
                              ELSE status[OpArg(ro)]
             /\ {last'.rows[k] : k \in 1..Len(last'.rows)}
                   = {c \in ConvIds : /\ convs[c].state = "QUEUED"
                                      /\ convs[c].tenant = OperatorTenant(OpArg(ro))}]_vars

\* the move calls made by a MANAGER/ADMIN on a stored conversation
ManagerMoves ==
    {call \in MoveCalls : call[1] \in ConvNames /\ call[3] \in ManagerCallers}

\* C24: moveInbox by a MANAGER/ADMIN to an existing inbox of the
\* conversation's tenant changes only the conversation's inbox: every other
\* attribute of it, every other conversation, the subscriptions and the
\* grace entries are unchanged; when the target inbox is blank, unknown or
\* of another tenant the conversations are unchanged.
C24_MoveChangesInboxOnly ==
    [][last'.op = "move" =>
       \A call \in ManagerMoves :
          LET c == ConvArg(call[1])
              target == OpArg(call[2])
          IN  \/ /\ UNCHANGED <<subs, grace, status>>
                 /\ IF target \in Inboxes /\ InboxTenant(target) = convs[c].tenant
                    THEN /\ last'.res = "ok"
                         /\ convs' = [convs EXCEPT ![c].inbox = target]
                    ELSE /\ last'.res # "ok"
                         /\ convs' = convs
              \/ ~(convs[c].state # "ABSENT"
                   /\ MoveConversationInbox(call[1], call[2], call[3]))]_vars

\* a move has just changed the inbox of a conversation that is ALLOCATED
C24_Witness ==
    /\ last = Call("move", "ok")
    /\ live
    /\ \E c \in ConvIds : convs[c].state = "ALLOCATED" /\ convs[c].assigned # NULL

\* C25: every conversation that allocateNext or claim allocates leaves a
\* subscription between its operator and its inbox, and no step removes a
\* subscription.
C25_SubscriptionsGrow ==
    [][/\ subs \subseteq subs'
       /\ last'.op \in {"allocate", "claim"} =>
            \A c \in ConvIds :
               (convs[c].state = "QUEUED" /\ convs'[c].state = "ALLOCATED")
                  => <<convs'[c].assigned, convs'[c].inbox>> \in subs']_vars

\* a claim has just allocated a conversation and its operator is subscribed
\* to its inbox
C25_Witness ==
    /\ last = Call("claim", "ok")
    /\ \E c \in ConvIds :
          /\ convs[c].state = "ALLOCATED"
          /\ <<convs[c].assigned, convs[c].inbox>> \in subs

\* C26: in every reachable state the operator a conversation is assigned to
\* belongs to the conversation's tenant.
C26_AssigneeSameTenant ==
    \A c \in ConvIds :
       convs[c].assigned # NULL
          => /\ convs[c].assigned \in Operators
             /\ OperatorTenant(convs[c].assigned) = convs[c].tenant

\* a claim has just allocated a conversation while an operator of another
\* tenant is AVAILABLE
C26_Witness ==
    /\ last = Call("claim", "ok")
    /\ \E c \in ConvIds, o \in Operators :
          /\ convs[c].state = "ALLOCATED"
          /\ OperatorTenant(convs[c].assigned) = convs[c].tenant
          /\ status[o] = "AVAILABLE"
          /\ OperatorTenant(o) # convs[c].tenant

\* C27: deallocate on an ALLOCATED conversation sets it to QUEUED with no
\* assignee and changes nothing else; on a conversation that is QUEUED or
\* RESOLVED, or on a blank or unknown id, it returns a failure and changes
\* nothing.
C27_DeallocateByState ==
    [][last'.op = "deallocate" =>
       \A rc \in RawConvIds :
          DeallocateConversation(rc) =>
             IF rc \in ConvNames /\ convs[ConvArg(rc)].state = "ALLOCATED"
             THEN /\ last'.res = "ok"
                  /\ convs' = [convs EXCEPT ![ConvArg(rc)].state = "QUEUED",
                                            ![ConvArg(rc)].assigned = NULL]
                  /\ UNCHANGED <<status, subs, grace>>
             ELSE /\ last'.res = "none"
                  /\ UNCHANGED store]_vars

\* a deallocation has just returned a conversation to the queue while its
\* inbox still has a subscriber
C27_Witness ==
    /\ last = Call("deallocate", "ok")
    /\ \E c \in ConvIds :
          /\ convs[c].state = "QUEUED"
          /\ convs[c].assigned = NULL
          /\ \E s \in subs : s[2] = convs[c].inbox

\* the reassign calls in which no id is blank
FullReassignCalls ==
    {call \in ReassignCalls : \A k \in 1..3 : ~Missing(call[k])}

\* C28: reassign invoked by a caller who is not MANAGER/ADMIN raises the
\* authorization error; reassign by a MANAGER/ADMIN to a target operator
\* that does not exist or belongs to another tenant than the conversation's
\* returns no-match; in both cases nothing is changed.
C28_ReassignRefusals ==
    [][last'.op = "reassign" =>
       \A call \in FullReassignCalls :
          LET denied == call[3] \notin ManagerCallers
              nomatch == /\ call[3] \in ManagerCallers
                         /\ call[1] \in ConvNames
                         /\ convs[ConvArg(call[1])].state # "ABSENT"
                         /\ \/ call[2] \notin KnownTargets
                            \/ OperatorTenant(OpArg(call[2]))
                                  # convs[ConvArg(call[1])].tenant
          IN  \/ ~(denied \/ nomatch)
              \/ /\ last'.res = IF denied THEN "denied" ELSE "none"
                 /\ UNCHANGED store
              \/ ~ReassignConversation(call[1], call[2], call[3])]_vars

\* a reassign has just returned no-match although every stored conversation
\* is QUEUED
C28_Witness ==
    /\ last = Call("reassign", "none")
    /\ \A c \in ConvIds : convs[c].state = "QUEUED"

\* C29: a grace entry for (c, o) only reclaims the allocation of c to o: a
\* sweeper tick leaves unchanged every conversation that is ALLOCATED to an
\* operator other than the operators of the lapsed entries naming it.
C29_SupersededEntryOnlyDeleted ==
    [][(last'.op = "sweep" /\ last'.res = "ok") =>
       \A c \in ConvIds :
          (/\ convs[c].state = "ALLOCATED"
           /\ \A r \in Lapsed : r.conv = c => r.op # convs[c].assigned)
          => convs'[c] = convs[c]]_vars


\* C30 (SpecOffline): whenever a conversation becomes ALLOCATED, which here
\* only a claim or an allocateNext does, the operator it is assigned to is
\* AVAILABLE in the store at the moment of that commit, whatever an
\* operatorGoesOffline for that operator did in between.
C30_AllocatedOnlyToAvailable ==
    [][\A c \in ConvIds :
          (convs[c].state # "ALLOCATED" /\ convs'[c].state = "ALLOCATED")
          => status'[convs'[c].assigned] = "AVAILABLE"]_vars

\* C31: every conversation ALLOCATED to an operator whose availability is
\* OFFLINE has at least one pending grace entry for that conversation and
\* operator.
C31_OfflineHolderCovered ==
    \A c \in ConvIds :
       (/\ convs[c].state = "ALLOCATED"
        /\ convs[c].assigned \in Operators
        /\ status[convs[c].assigned] = "OFFLINE")
       => \E r \in DOMAIN grace : r.conv = c /\ r.op = convs[c].assigned

Overlapped(p, q) ==
    /\ p # q
    /\ req[q].pc = "done"
    /\ req[p].pc = "sweep_commit"
    /\ DOMAIN req[p].seen # {}
    /\ req[p].seen = req[q].seen

\* C33 (SpecSweep): of two overlapping sweeper ticks that selected the same
\* lapsed entries, the one that completes second completes without error and
\* leaves the state the first one left: the entries are gone and no
\* conversation is changed, in particular none that was allocated again in
\* between.
C33_OverlappingTicksAsOne ==
    [][\A p, q \in Procs :
          (Overlapped(p, q) /\ req'[p].pc = "done")
          => /\ req'[p].res = "ok"
             /\ \A r \in DOMAIN req[p].seen : r \notin DOMAIN grace'
             /\ convs' = convs]_vars

\* C34 (SpecRace): allocateNext ranks once. When the conversation it picked
\* is no longer QUEUED at the re-check, the handler's next step ends the
\* request with "nothing available": no conversation is allocated in its
\* place and nothing is written, whatever else is QUEUED.
C34_OnePassNoRetry ==
    [][\A p \in Procs :
          (/\ req[p].pc = "alloc_refetch"
           /\ convs[req[p].conv].state # "QUEUED"
           /\ req'[p] # req[p])
          => /\ req'[p].pc = "done"
             /\ req'[p].res = "none"
             /\ UNCHANGED store]_vars

\* an allocateNext has ended with "nothing available" after its pick was
\* allocated by the other handler, while another conversation of the
\* caller's tenant is QUEUED
C34_Witness ==
    \E p \in Procs :
       /\ req[p].op = "allocate"
       /\ req[p].pc = "done"
       /\ req[p].res = "none"
       /\ req[p].conv \in ConvIds
       /\ convs[req[p].conv].state = "ALLOCATED"
       /\ \E c \in ConvIds :
             convs[c].state = "QUEUED" /\ convs[c].tenant = OperatorTenant(req[p].who)

C36_ListWritesScoresOnly ==
    [][\A p \in Procs :
          (req'[p].op = "list" /\ req'[p] # req[p])
          => /\ UNCHANGED <<status, subs, grace, policy>>
             /\ req'[p].pc = "list_write" =>
                   /\ convs' = convs
                   /\ \A c \in DOMAIN req'[p].scores :
                         /\ convs[c].state = "QUEUED"
                         /\ convs[c].tenant = OperatorTenant(req'[p].who)
                         /\ req'[p].scores[c] =
                               CalculatePriority(convs, c, DOMAIN req'[p].scores,
                                                 convs[c].tenant, now)
             /\ req[p].pc # "list_write" => convs' = convs
             /\ req[p].pc = "list_write" =>
                   \A c \in ConvIds :
                      convs'[c] = IF c \in DOMAIN req[p].scores
                                  THEN [convs[c] EXCEPT !.priority_score = req[p].scores[c]]
                                  ELSE convs[c]]_vars

\* a listQueued has written its scores after one of its candidates was
\* claimed by the other handler, and the candidate is still ALLOCATED
C36_Witness ==
    \E p \in Procs :
       /\ req[p].op = "list"
       /\ req[p].pc = "done"
       /\ req[p].res = "ok"
       /\ \E c \in DOMAIN req[p].scores :
             /\ convs[c].state = "ALLOCATED"
             /\ convs[c].priority_score = req[p].scores[c]

\* C37: the ledger holds at most one grace entry per (conversation,
\* operator) pair: no row is stored twice and no two rows name the same pair.
C37_OneEntryPerPair ==
    /\ \A r \in DOMAIN grace : grace[r] <= 1
    /\ \A r, q \in DOMAIN grace : (r.conv = q.conv /\ r.op = q.op) => r = q

\* C38: an operator whose availability is AVAILABLE has no grace entry.
C38_AvailableHasNoGrace ==
    \A o \in Operators :
       status[o] = "AVAILABLE" => \A r \in DOMAIN grace : r.op # o

\* an operatorGoesOnline has just changed the store, an operator holding an
\* ALLOCATED conversation is AVAILABLE and the ledger is empty
C38_Witness ==
    /\ last.op = "online"
    /\ live
    /\ grace = << >>
    /\ \E o \in Operators :
          /\ status[o] = "AVAILABLE"
          /\ \E c \in ConvIds : convs[c].state = "ALLOCATED" /\ convs[c].assigned = o

\* the caller named by raw id ro is an operator of another tenant than
\* conversation c's
ForeignCaller(ro, rc) ==
    /\ ro \in ManagerCallers
    /\ rc \in ConvNames
    /\ convs[ConvArg(rc)].state # "ABSENT"
    /\ OperatorTenant(OpArg(ro)) # convs[ConvArg(rc)].tenant

\* C39: a reassign or moveInbox called by a MANAGER/ADMIN whose tenant
\* differs from the conversation's tenant leaves every conversation
\* unchanged.
C39_NoCrossTenantManager ==
    [][/\ last'.op = "reassign" =>
          \A call \in ReassignCalls :
             (ForeignCaller(call[3], call[1])
              /\ ReassignConversation(call[1], call[2], call[3])) => convs' = convs
       /\ last'.op = "move" =>
          \A call \in MoveCalls :
             (ForeignCaller(call[3], call[1])
              /\ MoveConversationInbox(call[1], call[2], call[3])) => convs' = convs]_vars

\* C40: a conversation that is RESOLVED stays RESOLVED in every step except
\* a successful reassign, which makes it ALLOCATED.
C40_ResolvedLeavesByReassignOnly ==
    [][\A c \in ConvIds :
          (convs[c].state = "RESOLVED" /\ convs'[c].state # "RESOLVED")
          => /\ last'.op = "reassign"
             /\ last'.res = "ok"
             /\ convs'[c].state = "ALLOCATED"]_vars

\* a reassign has just made a conversation ALLOCATED that had been resolved
C40_Witness ==
    /\ last = Call("reassign", "ok")
    /\ \E c \in ConvIds :
          convs[c].state = "ALLOCATED" /\ convs[c].resolved_at # NoTime

====
